---- MODULE Spec2Model ----
(***************************************************************************)
(* ChitraLeap backend: the POST /generate-ad handler of src/app.py.        *)
(*                                                                         *)
(* A request is handled by one execution context.  The handler blocks in   *)
(* each provider call, so a request's steps are the stretches of code      *)
(* between two blocking points:                                            *)
(*   Handle       lines 55-106  parse, validate, issue the text call       *)
(*   TextReturn   lines 100-145 the text call returns; parse its output,   *)
(*                              check its structure, issue image call 1    *)
(*   ImageReturn  lines 139-168 an image call returns; keep the URL and    *)
(*                              issue the next call, or answer             *)
(* Every return statement and the route's catch-all (lines 170-174) end    *)
(* the request with one response.                                          *)
(***************************************************************************)
EXTENDS Integers, Sequences, FiniteSets, TLC

\* ------------------------------------------------------------------ bounds
NumReqs == 2        \* requests in flight at once
MaxLen == 4         \* longest ad_copy / image_prompts list the provider returns
NumUrls == 2        \* distinct URLs the image provider may answer with

\* --------------------------------------------------------------- constants
NumPrompts == 3     \* len(image_prompts) != 3, line 127

Reqs == 1..NumReqs

\* required_fields, line 63 (in the order the comprehension scans them)
required_fields == <<"product_description", "target_audience", "offer", "language">>

Fields == {required_fields[k] : k \in 1..Len(required_fields)}

SeqsUpTo(S, n) == UNION {[1..k -> S] : k \in 0..n}

\* ------------------------------------------------------- request bodies
(* What request.get_json() (line 57) yields.  kind "raise": get_json raises *)
(* (malformed JSON, wrong content type).  Otherwise a JSON value: null,     *)
(* false, true, 0, a non-zero number, a string, an array or an object.      *)
(* For an object, val[f] says whether key f is absent, present with a falsy *)
(* value ("empty": "", 0, null, [], {}, false) or present with a truthy     *)
(* value; for a string (an array), val[f] # "absent" says that f is a       *)
(* substring (an element) of it.  extra: the value holds something else     *)
(* besides (another key, other characters, other elements).                 *)
NoFields == [f \in Fields |-> "absent"]

ScalarBodies ==
    {[kind |-> k, val |-> NoFields, extra |-> FALSE] :
        k \in {"raise", "null", "false", "true", "zero", "number"}}

TextBodies ==
    {[kind |-> k, val |-> v, extra |-> e] :
        k \in {"string", "array"}, v \in [Fields -> {"absent", "ok"}], e \in BOOLEAN}

ObjectBodies ==
    {[kind |-> "object", val |-> v, extra |-> e] :
        v \in [Fields -> {"absent", "empty", "ok"}], e \in BOOLEAN}

Bodies == ScalarBodies \cup TextBodies \cup ObjectBodies

NoData == [kind |-> "none", val |-> NoFields, extra |-> FALSE]

\* Python truthiness of the parsed body: `not data`, line 59
Truthy(d) ==
    CASE d.kind \in {"null", "false", "zero"} -> FALSE
      [] d.kind \in {"true", "number"} -> TRUE
      [] OTHER -> d.extra \/ \E f \in Fields : d.val[f] # "absent"

\* `field not in data or not data[field]`, line 64: does evaluating it raise?
\* `in` on a bool or a number raises TypeError; on a string or an array it is
\* a substring / membership test, and data[field] then raises TypeError.
FieldRaises(d, f) ==
    \/ d.kind \in {"true", "number"}
    \/ d.kind \in {"string", "array"} /\ d.val[f] # "absent"

\* ... and its value when it does not raise
FieldMissing(d, f) == d.val[f] \in {"absent", "empty"}

\* missing_fields, line 64: the list comprehension over required_fields
MissingFields(d) == SelectSeq(required_fields, LAMBDA f : FieldMissing(d, f))

ScanRaises(d) == \E f \in Fields : FieldRaises(d, f)

\* ------------------------------------------------------------- responses
(* jsonify(body), status.  A body is a JSON object: its DOMAIN is its keys. *)
(* An error string is kept as its fixed text plus the values formatted into *)
(* it: the field names joined by ", " (line 68), i+1 (line 158), str(e).    *)
Err(text, fields, index, cause) ==
    [text |-> text, fields |-> fields, index |-> index, cause |-> cause]

ErrorResponse(status, e) == [status |-> status, body |-> [error |-> e]]

NoJsonData == ErrorResponse(400, Err("No JSON data provided", <<>>, 0, ""))

MissingRequired(missing) ==
    ErrorResponse(400, Err("Missing required fields: ", missing, 0, ""))

\* the route's catch-all, lines 170-174
Unexpected(cause) ==
    ErrorResponse(500, Err("An unexpected error occurred: ", <<>>, 0, cause))

EmptyGpt == ErrorResponse(500, Err("Empty response from GPT-4", <<>>, 0, ""))

InvalidFormat == ErrorResponse(500, Err("Invalid response format from GPT-4", <<>>, 0, ""))

InvalidStructure ==
    ErrorResponse(500, Err("Invalid response structure from GPT-4", <<>>, 0, ""))

Expected3 == ErrorResponse(500, Err("Expected 3 image prompts from GPT-4", <<>>, 0, ""))

\* a variant of ImageError that formats the 0-based loop index
ImageErrorZeroBased(i, cause) == Err("Failed to generate image ", <<>>, i, cause)

\* f"Failed to generate image {i+1}: {str(dalle_error)}", line 158
ImageError(i, cause) == Err("Failed to generate image ", <<>>, i + 1, cause)

\* final_response, lines 162-168
FinalResponse(ad_copy, image_urls) ==
    [status |-> 200, body |-> [ad_copy |-> ad_copy, image_urls |-> image_urls]]

\* ------------------------------------------------------ provider results
(* A JSON value the handler only measures or passes on: sized says whether  *)
(* len() accepts it (an array), items are its elements.                     *)
Scalar == [sized |-> FALSE, items |-> <<>>]

List(items) == [sized |-> TRUE, items |-> items]

\* an ad_copy entry as the prompt asks for it, and one lacking its body
GoodEntry == [headline |-> "h", body |-> "b"]

BadEntry == [headline |-> "h"]

AdCopyVals == {Scalar} \cup {List(s) : s \in SeqsUpTo({GoodEntry, BadEntry}, MaxLen)}

PromptTokens == {"pa", "pb"}

PromptVals == {Scalar} \cup {List(s) : s \in SeqsUpTo(PromptTokens, MaxLen)}

\* faults of a provider call: the API answers with an error, the network fails
ProviderFaults == {"APIError", "APIConnectionError"}

(* What openai_client.chat.completions.create (line 100) comes back with:   *)
(* it raises; it returns no choice (choices[0] raises IndexError); its      *)
(* message content is None or ""; the content is not JSON; the content is a *)
(* JSON scalar (null, number, bool), a JSON array or string without the two *)
(* key names in it, or a JSON object with the keys `keys`.                  *)
TextOut(kind, cause, keys, ad_copy, image_prompts) ==
    [kind |-> kind, cause |-> cause, keys |-> keys,
     ad_copy |-> ad_copy, image_prompts |-> image_prompts]

TextOutcomes ==
    {TextOut("raise", c, {}, Scalar, Scalar) : c \in ProviderFaults}
    \cup {TextOut(k, "", {}, Scalar, Scalar) :
            k \in {"no_choices", "content_none", "content_empty", "not_json",
                   "json_scalar", "json_array"}}
    \cup {TextOut("json_object", "", {}, Scalar, Scalar),
          TextOut("json_object", "", {"ad_copy"}, List(<<GoodEntry>>), Scalar),
          TextOut("json_object", "", {"image_prompts"}, Scalar, List(<<"pa", "pb", "pa">>))}
    \cup {TextOut("json_object", "", {"ad_copy", "image_prompts"}, a, p) :
            a \in AdCopyVals, p \in PromptVals}

(* What openai_client.images.generate (line 139) comes back with: it        *)
(* raises, its data is empty, or data[0].url is a URL.                      *)
Urls == 1..NumUrls

ImageOutcomes ==
    {[kind |-> "raise", cause |-> c, url |-> 0] : c \in ProviderFaults}
    \cup {[kind |-> "empty", cause |-> "", url |-> 0]}
    \cup {[kind |-> "ok", cause |-> "", url |-> u] : u \in Urls}

\* the provider calls, as the handler makes them
TextCall == [api |-> "chat.completions.create", i |-> 0, prompt |-> "meta_prompt"]

ImageCall(i, prompt) == [api |-> "images.generate", i |-> i, prompt |-> prompt]

\* ------------------------------------------------------------------ state
VARIABLES
    pc,             \* where each request's handler stands: "idle" (not yet
                    \* received), "text" (blocked in line 100), "image"
                    \* (blocked in line 139), "done" (it has returned)
    data,           \* line 57
    ad_copy,        \* line 124
    image_prompts,  \* line 125
    i,              \* the loop index of line 134 (0-based, as enumerate counts)
    image_urls,     \* line 131
    inflight,       \* the provider calls a request has issued and not got back
    calls,          \* history: every provider call issued and returned, in order
    response        \* the responses a request has been answered with

vars == <<pc, data, ad_copy, image_prompts, i, image_urls, inflight, calls, response>>

\* the locals of request r's handler
State(r) ==
    [pc |-> pc[r], data |-> data[r], ad_copy |-> ad_copy[r],
     image_prompts |-> image_prompts[r], i |-> i[r], image_urls |-> image_urls[r]]

\* ---------------------------------------------------- the handler's steps
(* Each step maps the handler's locals to its locals at the next blocking   *)
(* point or return, with the provider calls it issues on the way (issued)   *)
(* and the response it returns (ret).                                       *)

\* a return statement: the handler ends with this response
Return(st, resp) ==
    [st EXCEPT !.pc = "done"] @@ [issued |-> <<>>, ret |-> <<resp>>]

\* the handler enters a provider call and blocks in it
Block(st, where, call) ==
    [st EXCEPT !.pc = where] @@ [issued |-> <<call>>, ret |-> <<>>]

\* lines 55-106: from the request to the text call
HandleStep(st, d) ==
    LET s0 == [st EXCEPT !.data = d] IN
    IF d.kind = "raise" THEN Return(s0, Unexpected("BadRequest"))
    ELSE IF ~Truthy(d) THEN Return(s0, NoJsonData)
    ELSE IF ScanRaises(d) THEN Return(s0, Unexpected("TypeError"))
    ELSE IF MissingFields(d) # <<>> THEN Return(s0, MissingRequired(MissingFields(d)))
    ELSE Block(s0, "text", TextCall)

\* a variant of PromptCountOk that only rejects too few prompts
PromptCountAtLeast(p) == Len(p.items) >= NumPrompts

\* len(image_prompts) != 3, line 127 (negated)
PromptCountOk(p) == Len(p.items) = NumPrompts

\* a variant of FirstImageCalls that starts every image call at once
AllImageCalls(prompts) == [k \in 1..Len(prompts) |-> ImageCall(k - 1, prompts[k])]

\* lines 134-145: the loop enters its first iteration and makes that one call
FirstImageCalls(prompts) == <<ImageCall(0, prompts[1])>>

\* lines 108-145: from the text call's return to the first image call
TextStep(st, o) ==
    CASE o.kind = "raise" -> Return(st, Unexpected(o.cause))
      [] o.kind = "no_choices" -> Return(st, Unexpected("IndexError"))
      [] o.kind \in {"content_none", "content_empty"} -> Return(st, EmptyGpt)
      [] o.kind = "not_json" -> Return(st, InvalidFormat)
      [] o.kind = "json_scalar" -> Return(st, Unexpected("TypeError"))
      [] o.kind = "json_array" -> Return(st, InvalidStructure)
      [] OTHER ->
            IF ~({"ad_copy", "image_prompts"} \subseteq o.keys)
            THEN Return(st, InvalidStructure)
            ELSE LET s1 == [st EXCEPT !.ad_copy = o.ad_copy,
                                      !.image_prompts = o.image_prompts]
                 IN  IF ~o.image_prompts.sized THEN Return(s1, Unexpected("TypeError"))
                     ELSE IF ~PromptCountOk(o.image_prompts) THEN Return(s1, Expected3)
                     ELSE [s1 EXCEPT !.pc = "image", !.i = 0, !.image_urls = <<>>]
                          @@ [issued |-> FirstImageCalls(o.image_prompts.items),
                              ret |-> <<>>]

\* a variant of AppendUrl that puts the new URL first
PrependUrl(urls, u) == <<u>> \o urls

\* image_urls.append(image_url), line 151
AppendUrl(urls, u) == Append(urls, u)

\* the for loop of line 134 has another prompt after index i
MorePrompts(st) == st.i + 1 < Len(st.image_prompts.items)

\* a variant of ImageFailed that makes the same call again
ImageFailedRetry(st, cause) ==
    Block(st, "image", ImageCall(st.i, st.image_prompts.items[st.i + 1]))

\* a variant of ImageFailed that answers with the URLs obtained so far
ImageFailedPartial(st, cause) ==
    Return(st, [status |-> 500,
                body |-> [error |-> ImageError(st.i, cause),
                          image_urls |-> st.image_urls]])

\* except Exception as dalle_error, lines 155-159
ImageFailed(st, cause) == Return(st, ErrorResponse(500, ImageError(st.i, cause)))

\* lines 147-168: from an image call's return to the next call or the answer
ImageStep(st, o) ==
    CASE o.kind = "raise" -> ImageFailed(st, o.cause)
      [] o.kind = "empty" -> ImageFailed(st, "No image data received from DALL-E 3")
      [] OTHER ->
            LET s1 == [st EXCEPT !.image_urls = AppendUrl(st.image_urls, o.url)] IN
            IF MorePrompts(s1)
            THEN Block([s1 EXCEPT !.i = s1.i + 1], "image",
                       ImageCall(s1.i + 1, s1.image_prompts.items[s1.i + 2]))
            ELSE Return(s1, FinalResponse(s1.ad_copy, s1.image_urls))

\* ---------------------------------------------------------------- actions
\* history entries: a call is issued; a call comes back with outcome o
IssueEvent(c) == [ev |-> "issue", call |-> c, out |-> [kind |-> "pending"]]

ReturnEvent(c, o) == [ev |-> "return", call |-> c, out |-> o]

Range(s) == {s[k] : k \in 1..Len(s)}

\* a variant of Commit in which image_urls is one module-level list
CommitShared(r, done, events, n) ==
    /\ pc' = [pc EXCEPT ![r] = n.pc]
    /\ data' = [data EXCEPT ![r] = n.data]
    /\ ad_copy' = [ad_copy EXCEPT ![r] = n.ad_copy]
    /\ image_prompts' = [image_prompts EXCEPT ![r] = n.image_prompts]
    /\ i' = [i EXCEPT ![r] = n.i]
    /\ image_urls' = [q \in Reqs |-> n.image_urls]
    /\ inflight' = [inflight EXCEPT ![r] = (@ \ done) \cup Range(n.issued)]
    /\ calls' = [calls EXCEPT ![r] = @ \o events
                    \o [k \in 1..Len(n.issued) |-> IssueEvent(n.issued[k])]]
    /\ response' = [response EXCEPT ![r] = @ \o n.ret]

(* Request r's handler takes one step to n: every name it assigns is a      *)
(* local of generate_ad (lines 57-164), so only r's own state changes; the  *)
(* calls in `done` have come back and those in n.issued are now awaited.    *)
Commit(r, done, events, n) ==
    /\ pc' = [pc EXCEPT ![r] = n.pc]
    /\ data' = [data EXCEPT ![r] = n.data]
    /\ ad_copy' = [ad_copy EXCEPT ![r] = n.ad_copy]
    /\ image_prompts' = [image_prompts EXCEPT ![r] = n.image_prompts]
    /\ i' = [i EXCEPT ![r] = n.i]
    /\ image_urls' = [image_urls EXCEPT ![r] = n.image_urls]
    /\ inflight' = [inflight EXCEPT ![r] = (@ \ done) \cup Range(n.issued)]
    /\ calls' = [calls EXCEPT ![r] = @ \o events
                    \o [k \in 1..Len(n.issued) |-> IssueEvent(n.issued[k])]]
    /\ response' = [response EXCEPT ![r] = @ \o n.ret]

\* POST /generate-ad arrives with a body from B and runs up to the text call
Handle(r, B) ==
    /\ pc[r] = "idle"
    /\ \E d \in B : Commit(r, {}, <<>>, HandleStep(State(r), d))

\* the text call of request r comes back with an outcome from T
TextReturn(r, T) ==
    /\ pc[r] = "text"
    /\ \E c \in inflight[r] :
          /\ c.api = "chat.completions.create"
          /\ \E o \in T :
                Commit(r, {c}, <<ReturnEvent(c, o)>>, TextStep(State(r), o))

\* an image call of request r comes back with an outcome from O
ImageReturn(r, O) ==
    /\ pc[r] = "image"
    /\ \E c \in inflight[r] :
          /\ c.api = "images.generate"
          /\ \E o \in O :
                Commit(r, {c}, <<ReturnEvent(c, o)>>, ImageStep(State(r), o))

Init ==
    /\ pc = [r \in Reqs |-> "idle"]
    /\ data = [r \in Reqs |-> NoData]
    /\ ad_copy = [r \in Reqs |-> Scalar]
    /\ image_prompts = [r \in Reqs |-> Scalar]
    /\ i = [r \in Reqs |-> 0]
    /\ image_urls = [r \in Reqs |-> <<>>]
    /\ inflight = [r \in Reqs |-> {}]
    /\ calls = [r \in Reqs |-> <<>>]
    /\ response = [r \in Reqs |-> <<>>]

\* ---------------------------------------------------------- specifications
\* One request, every body and every provider outcome.
Solo == {1}

Next ==
    \E r \in Solo :
        \/ Handle(r, Bodies)
        \/ TextReturn(r, TextOutcomes)
        \/ ImageReturn(r, ImageOutcomes)

Spec == Init /\ [][Next]_vars

\* One request and every body, with one text result for every path through
\* lines 108-128 (the lists differ in length only), and every provider call
\* eventually coming back (it returns or it fails): the handler blocks in
\* the call and goes on when it does.
LiveTextOutcomes ==
    {o \in TextOutcomes :
        o.keys = {"ad_copy", "image_prompts"} =>
            /\ o.ad_copy = List(<<GoodEntry, GoodEntry, GoodEntry>>)
            /\ \A k \in 1..Len(o.image_prompts.items) : o.image_prompts.items[k] = "pa"}

LiveNext ==
    \E r \in Solo :
        \/ Handle(r, Bodies)
        \/ TextReturn(r, LiveTextOutcomes)
        \/ ImageReturn(r, ImageOutcomes)

LiveSpec ==
    /\ Init /\ [][LiveNext]_vars
    /\ WF_vars(\E r \in Solo : TextReturn(r, LiveTextOutcomes))
    /\ WF_vars(\E r \in Solo : ImageReturn(r, ImageOutcomes))

\* Several requests handled at once (a thread each), their steps interleaved;
\* the bodies and the provider outcomes are one of each sort.
ValidBody == [kind |-> "object", val |-> [f \in Fields |-> "ok"], extra |-> FALSE]

ConcBodies ==
    {[kind |-> "null", val |-> NoFields, extra |-> FALSE],
     [kind |-> "object", val |-> [ValidBody.val EXCEPT !["offer"] = "absent"],
      extra |-> FALSE],
     ValidBody}

ConcTextOutcomes ==
    {TextOut("raise", "APIError", {}, Scalar, Scalar),
     TextOut("json_object", "", {"ad_copy", "image_prompts"},
             List(<<GoodEntry, GoodEntry, GoodEntry>>), List(<<"pa", "pb", "pa">>))}

ConcImageOutcomes ==
    {[kind |-> "raise", cause |-> "APIError", url |-> 0]}
    \cup {[kind |-> "ok", cause |-> "", url |-> u] : u \in Urls}

ConcNext ==
    \E r \in Reqs :
        \/ Handle(r, ConcBodies)
        \/ TextReturn(r, ConcTextOutcomes)
        \/ ImageReturn(r, ConcImageOutcomes)

ConcSpec == Init /\ [][ConcNext]_vars

\* ------------------------------------------------- vocabulary of the claims
Done(r) == pc[r] = "done"

Answer(r) == response[r][1]

Status(r) == Answer(r).status

Issues(r, api) ==
    SelectSeq(calls[r], LAMBDA e : e.ev = "issue" /\ e.call.api = api)

Returns(r, api) ==
    SelectSeq(calls[r], LAMBDA e : e.ev = "return" /\ e.call.api = api)

TextIssues(r) == Issues(r, "chat.completions.create")

ImageIssues(r) == Issues(r, "images.generate")

TextReturns(r) == Returns(r, "chat.completions.create")

ImageReturns(r) == Returns(r, "images.generate")

\* the k-th image call of r failed after the k-1 before it succeeded
FailedAt(r, k) ==
    /\ Len(ImageReturns(r)) = k
    /\ ImageReturns(r)[k].out.kind # "ok"
    /\ \A j \in 1..(k - 1) : ImageReturns(r)[j].out.kind = "ok"

\* an object body with a required field absent or empty
IncompleteObject(d) ==
    d.kind = "object" /\ \E f \in Fields : d.val[f] \in {"absent", "empty"}

\* a parsed body that is not an object with the four fields non-empty
InvalidBody(d) ==
    d.kind # "raise" /\ (d.kind # "object" \/ \E f \in Fields : d.val[f] # "ok")

\* ------------------------------------------------------------------ C1
(* C1: a request whose body lacks (or has empty) one or more of the four    *)
(* required fields, all four included, is answered 400 with one error       *)
(* message that names every such field.                                     *)
C1_NamesEveryMissingField ==
    \A r \in Reqs :
        Done(r) /\ IncompleteObject(data[r]) =>
            /\ Len(response[r]) = 1
            /\ Status(r) = 400
            /\ DOMAIN Answer(r).body = {"error"}
            /\ Range(Answer(r).body.error.fields) =
                   {f \in Fields : data[r].val[f] \in {"absent", "empty"}}

\* ------------------------------------------------------------------ C2
(* C2: a request whose parsed body fails validation (null, not an object,   *)
(* or without a non-empty value for a required key) is answered 400, and    *)
(* no provider is called for it.                                            *)
C2_InvalidBodyIs400 ==
    \A r \in Reqs :
        Done(r) /\ InvalidBody(data[r]) =>
            /\ Len(response[r]) = 1
            /\ Status(r) = 400
            /\ calls[r] = <<>>

\* ------------------------------------------------------------------ C3
(* C3: for k = 1, 2, 3, when the k-th image call fails (provider error,     *)
(* network fault or empty data) after the calls before it succeeded, the    *)
(* answer is 500, its error carries the 1-based index k, its body has no    *)
(* image_urls, and no image call was issued for the prompts after k.        *)
C3_ImageFailureAborts ==
    \A r \in Reqs : \A k \in 1..NumPrompts :
        FailedAt(r, k) =>
            /\ Done(r)
            /\ Len(response[r]) = 1
            /\ Status(r) = 500
            /\ DOMAIN Answer(r).body = {"error"}
            /\ Answer(r).body.error.text = "Failed to generate image "
            /\ Answer(r).body.error.index = k
            /\ Len(ImageIssues(r)) = k
            /\ inflight[r] = {}

\* the second image call came back empty after the first gave a URL
C3_Witness ==
    \E r \in Reqs :
        /\ FailedAt(r, 2)
        /\ ImageReturns(r)[2].out.kind = "empty"
        /\ Len(image_urls[r]) = 1
        /\ Done(r)

\* ------------------------------------------------------------------ C4
\* the text call gave an object with 3 ad-copy entries and 3 image prompts
\* and three image calls came back with a URL
AllSucceeded(r) ==
    /\ Len(TextReturns(r)) = 1
    /\ TextReturns(r)[1].out.kind = "json_object"
    /\ TextReturns(r)[1].out.keys = {"ad_copy", "image_prompts"}
    /\ TextReturns(r)[1].out.ad_copy.sized
    /\ Len(TextReturns(r)[1].out.ad_copy.items) = 3
    /\ TextReturns(r)[1].out.image_prompts.sized
    /\ Len(TextReturns(r)[1].out.image_prompts.items) = 3
    /\ Len(ImageReturns(r)) = 3
    /\ \A k \in 1..3 : ImageReturns(r)[k].out.kind = "ok"

(* C4: after a well-formed text result (3 ad-copy entries, 3 prompts) and   *)
(* three successful image calls the answer is 200, its ad_copy is the       *)
(* provider's ad_copy unchanged, and image_urls has 3 entries, entry k      *)
(* being the URL returned by the call made for image_prompts[k].            *)
C4_SuccessPassesThrough ==
    \A r \in Reqs :
        AllSucceeded(r) =>
            /\ Done(r)
            /\ Len(response[r]) = 1
            /\ Status(r) = 200
            /\ Answer(r).body.ad_copy = TextReturns(r)[1].out.ad_copy
            /\ Len(Answer(r).body.image_urls) = 3
            /\ \A k \in 1..3 :
                  /\ ImageReturns(r)[k].call.prompt =
                         TextReturns(r)[1].out.image_prompts.items[k]
                  /\ Answer(r).body.image_urls[k] = ImageReturns(r)[k].out.url

\* a success whose three URLs are not all the same
C4_Witness ==
    \E r \in Reqs :
        /\ AllSucceeded(r)
        /\ Done(r)
        /\ image_urls[r][1] # image_urls[r][3]
        /\ image_prompts[r].items[1] # image_prompts[r].items[2]

Unusable(o) ==
    \/ o.kind \in {"content_none", "content_empty", "not_json", "json_scalar",
                   "json_array"}
    \/ /\ o.kind = "json_object"
       /\ \/ ~({"ad_copy", "image_prompts"} \subseteq o.keys)
          \/ ~o.image_prompts.sized
          \/ Len(o.image_prompts.items) # 3

WrongCount(o) ==
    /\ o.kind = "json_object"
    /\ {"ad_copy", "image_prompts"} \subseteq o.keys
    /\ o.image_prompts.sized
    /\ Len(o.image_prompts.items) # 3

(* C6: when the text output is unusable (empty, not JSON, JSON without the  *)
(* ad_copy or image_prompts key, an image_prompts list whose length is not  *)
(* 3) the answer is 500 with an error string, which for a wrong length      *)
(* cites the expected count of 3, and no image call is issued.              *)
C6_UnusableTextIs500 ==
    \A r \in Reqs :
        Len(TextReturns(r)) >= 1 /\ Unusable(TextReturns(r)[1].out) =>
            /\ Done(r)
            /\ Len(response[r]) = 1
            /\ Status(r) = 500
            /\ DOMAIN Answer(r).body = {"error"}
            /\ WrongCount(TextReturns(r)[1].out) =>
                   Answer(r).body.error.text = "Expected 3 image prompts from GPT-4"
            /\ ImageIssues(r) = <<>>
            /\ inflight[r] = {}

\* the text output had exactly 2 image prompts
C6_Witness ==
    \E r \in Reqs :
        /\ Len(TextReturns(r)) = 1
        /\ WrongCount(TextReturns(r)[1].out)
        /\ Len(TextReturns(r)[1].out.image_prompts.items) = 2
        /\ Done(r)

\* ------------------------------------------------------------------ C7
\* the j-th entry of r's history is a call issued in its turn: the text call
\* first, image call 0 right after the text call came back with an object,
\* image call i+1 right after image call i came back with a URL
IssuedInTurn(r, j) ==
    LET e == calls[r][j] IN
    IF j = 1 THEN e.call = TextCall
    ELSE LET prev == calls[r][j - 1] IN
         /\ prev.ev = "return"
         /\ e.call.api = "images.generate"
         /\ e.call.prompt = image_prompts[r].items[e.call.i + 1]
         /\ \/ /\ prev.call.api = "chat.completions.create"
               /\ prev.out.kind = "json_object"
               /\ e.call.i = 0
            \/ /\ prev.call.api = "images.generate"
               /\ prev.out.kind = "ok"
               /\ e.call.i = prev.call.i + 1

\* the j-th entry is the return of the call issued just before it
ReturnsLastIssued(r, j) ==
    /\ j > 1
    /\ calls[r][j - 1].ev = "issue"
    /\ calls[r][j - 1].call = calls[r][j].call

(* C7: within one request the provider calls are strictly ordered and never *)
(* overlap: the text call is issued and comes back before any image call,   *)
(* the image calls are issued in prompt order, each only after the one      *)
(* before it came back with success, and at most one call is outstanding.   *)
C7_CallsSequential ==
    \A r \in Reqs :
        /\ Cardinality(inflight[r]) <= 1
        /\ \A j \in 1..Len(calls[r]) :
              IF calls[r][j].ev = "issue"
              THEN IssuedInTurn(r, j)
              ELSE ReturnsLastIssued(r, j)

\* the text call and two image calls came back in turn and the third image
\* call is the one call outstanding
C7_Witness ==
    \E r \in Reqs :
        /\ Len(calls[r]) = 7
        /\ pc[r] = "image"
        /\ Cardinality(inflight[r]) = 1
        /\ i[r] = 2

\* ------------------------------------------------------------------ C8
\* a history entry that is the return of a call that failed
FailedReturn(e) ==
    /\ e.ev = "return"
    /\ IF e.call.api = "chat.completions.create"
       THEN e.out.kind \in {"raise", "no_choices"} \/ Unusable(e.out)
       ELSE e.out.kind # "ok"

(* C8: nothing is retried: a request calls the text provider at most once   *)
(* and the image provider at most once per prompt index (4 calls at most);  *)
(* a 200 is returned only after exactly 1 text call and 3 image calls; and  *)
(* the first failing call ends the request, with no call after it.          *)
C8_NoRetry ==
    \A r \in Reqs :
        /\ Len(TextIssues(r)) <= 1
        /\ \A k \in 0..(NumPrompts - 1) :
              Len(SelectSeq(ImageIssues(r), LAMBDA e : e.call.i = k)) <= 1
        /\ Len(TextIssues(r)) + Len(ImageIssues(r)) <= 1 + NumPrompts
        /\ Done(r) /\ Status(r) = 200 =>
              /\ Len(TextIssues(r)) = 1 /\ Len(TextReturns(r)) = 1
              /\ Len(ImageIssues(r)) = 3 /\ Len(ImageReturns(r)) = 3
        /\ \A j \in 1..Len(calls[r]) :
              FailedReturn(calls[r][j]) =>
                  /\ j = Len(calls[r])
                  /\ Done(r)
                  /\ inflight[r] = {}
                  /\ Status(r) = 500

\* the first image call hit a network fault: two calls in all, then the answer
C8_Witness ==
    \E r \in Reqs :
        /\ Done(r)
        /\ Len(calls[r]) = 4
        /\ calls[r][4].out.kind = "raise"
        /\ calls[r][4].out.cause = "APIConnectionError"
        /\ calls[r][4].call.api = "images.generate"

\* ------------------------------------------------------------------ C9
\* r's own text call gave an output the handler accepts and r's own three
\* image calls each gave a URL
OwnCallsSucceeded(r) ==
    /\ Len(TextReturns(r)) = 1
    /\ TextReturns(r)[1].out.kind = "json_object"
    /\ ~Unusable(TextReturns(r)[1].out)
    /\ Len(ImageReturns(r)) = 3
    /\ \A k \in 1..3 : ImageReturns(r)[k].out.kind = "ok"

(* C9: with several requests handled at once, their steps interleaved, each *)
(* answer depends only on the request's own body and its own provider       *)
(* results: 400 exactly for its own invalid body, 200 exactly when its own  *)
(* four calls succeeded, then with the ad_copy of its own text call and, in *)
(* order, the URLs of its own image calls; 500 only for a failure of its    *)
(* own, whatever happened to the other requests.                            *)
C9_RequestsIndependent ==
    \A r \in Reqs :
        /\ Done(r) =>
              /\ Len(response[r]) = 1
              /\ Status(r) = 400 => InvalidBody(data[r]) /\ calls[r] = <<>>
              /\ Status(r) = 200 <=> OwnCallsSucceeded(r)
              /\ Status(r) = 200 =>
                    /\ Answer(r).body.ad_copy = TextReturns(r)[1].out.ad_copy
                    /\ Answer(r).body.image_urls =
                           [k \in 1..3 |-> ImageReturns(r)[k].out.url]
              /\ Status(r) = 500 =>
                    \/ calls[r] = <<>> /\ (InvalidBody(data[r]) \/ data[r].kind = "raise")
                    \/ calls[r] # <<>> /\ FailedReturn(calls[r][Len(calls[r])])
        /\ image_urls[r] =
               [k \in 1..Len(SelectSeq(ImageReturns(r), LAMBDA e : e.out.kind = "ok")) |->
                   ImageReturns(r)[k].out.url]

\* one request answered 200 and another 500 after its second image call
\* failed, the two having been given different first URLs
C9_Witness ==
    \E r \in Reqs : \E q \in Reqs \ {r} :
        /\ Done(r) /\ Status(r) = 200
        /\ Done(q) /\ Status(q) = 500
        /\ FailedAt(q, 2)
        /\ image_urls[q][1] # image_urls[r][1]

\* ----------------------------------------------------------------- C10
\* what an answered request looks like, and an unanswered one
AnsweredOnce(r) ==
    IF Done(r)
    THEN /\ Len(response[r]) = 1
         /\ Status(r) \in {200, 400, 500}
         /\ Status(r) \in {400, 500} => DOMAIN Answer(r).body = {"error"}
         /\ inflight[r] = {}
    ELSE response[r] = <<>>

\* an answered request stays as it is: no further call, no further answer
Final(r) == Done(r) => calls'[r] = calls[r] /\ response'[r] = response[r] /\ Done(r)'

(* C10: provided every provider call eventually returns or fails, a request *)
(* that was received eventually ends, with exactly one answer, of status    *)
(* 200, 400 or 500; a 400 or 500 answer carries an error and neither        *)
(* ad_copy nor image_urls; an answered request issues no further call.      *)
C10_EndsWithOneAnswer ==
    /\ \A r \in Solo : (pc[r] # "idle") ~> Done(r)
    /\ [](\A r \in Reqs : AnsweredOnce(r))
    /\ [][\A r \in Reqs : Final(r)]_vars

\* a request answered 500 after two image calls gave a URL and the third failed
C10_Witness ==
    \E r \in Solo :
        /\ Done(r)
        /\ Status(r) = 500
        /\ FailedAt(r, 3)
        /\ Len(image_urls[r]) = 2

====
